---- MODULE Spec2Model ----
(***************************************************************************)
(* Model of DownloaderForReddit/Extractors/Extractors.py: the Extractor    *)
(* base class and its Imgur, Gfycat, Vidble, RedditUploads and Direct      *)
(* variants.  One extractor instance is constructed for one post url and   *)
(* one of its methods is called once; the three output lists and the       *)
(* exception (if any) that leaves the call are the observable state.       *)
(*                                                                         *)
(* Python strings that the code inspects (urls, ids, extensions, content   *)
(* types) are sequences of one-character strings, and the str methods the  *)
(* code uses on them (in, endswith, find, rsplit, lower, slicing) are      *)
(* operators on such sequences.                                            *)
(***************************************************************************)
EXTENDS Integers, Sequences, FiniteSets, TLC

(***************************************************************************)
(* Bounds                                                                  *)
(***************************************************************************)
\* longest album / longest list of <img> tags the remote side answers with
MaxImages == 3

(***************************************************************************)
(* Python str methods                                                      *)
(***************************************************************************)
\* sub in s
Contains(s, sub) ==
    \E i \in 1..(Len(s) - Len(sub) + 1) : SubSeq(s, i, i + Len(sub) - 1) = sub

\* s.endswith(suf)
EndsWith(s, suf) ==
    /\ Len(s) >= Len(suf)
    /\ SubSeq(s, Len(s) - Len(suf) + 1, Len(s)) = suf

\* s.endswith((suf1, suf2, ...)) with the tuple given as a sequence
EndsWithAny(s, sufs) == \E k \in 1..Len(sufs) : EndsWith(s, sufs[k])

\* s.find(sub), as the 1-based position of the first occurrence (0: none)
Find(s, sub) ==
    IF Contains(s, sub)
    THEN CHOOSE i \in 1..(Len(s) - Len(sub) + 1) :
            /\ SubSeq(s, i, i + Len(sub) - 1) = sub
            /\ \A j \in 1..(i - 1) : SubSeq(s, j, j + Len(sub) - 1) # sub
    ELSE 0

\* s.rfind(c) for a single character c, 1-based (0: none)
RFind(s, c) ==
    IF \E i \in 1..Len(s) : s[i] = c
    THEN CHOOSE i \in 1..Len(s) : s[i] = c /\ \A j \in (i + 1)..Len(s) : s[j] # c
    ELSE 0

\* s.rsplit(c, 1): a list of one element when c is absent, else two
RSplit(s, c) ==
    IF RFind(s, c) = 0
    THEN <<s>>
    ELSE <<SubSeq(s, 1, RFind(s, c) - 1), SubSeq(s, RFind(s, c) + 1, Len(s))>>

LowerChar(c) ==
    CASE c = "A" -> "a" [] c = "B" -> "b" [] c = "E" -> "e" [] c = "F" -> "f"
      [] c = "G" -> "g" [] c = "I" -> "i" [] c = "M" -> "m" [] c = "N" -> "n"
      [] c = "P" -> "p" [] c = "W" -> "w"
      [] OTHER -> c

\* s.lower()
Lower(s) == [i \in 1..Len(s) |-> LowerChar(s[i])]

(***************************************************************************)
(* String literals of the program                                          *)
(***************************************************************************)
Dot == "."
Slash == "/"
DotJpg == <<".", "j", "p", "g">>
DotJpeg == <<".", "j", "p", "e", "g">>
Jpeg == <<"j", "p", "e", "g">>
DotPng == <<".", "p", "n", "g">>
DotGif == <<".", "g", "i", "f">>
DotGifv == <<".", "g", "i", "f", "v">>
DotMp4 == <<".", "m", "p", "4">>
DotWebm == <<".", "w", "e", "b", "m">>
Webm == <<"w", "e", "b", "m">>
Gif == <<"g", "i", "f">>
Gifv == <<"g", "i", "f", "v">>
Mp4 == <<"m", "p", "4">>
ImageGif == <<"i", "m", "a", "g", "e", "/", "g", "i", "f">>
JsonWord == <<"j", "s", "o", "n">>
TextWord == <<"t", "e", "x", "t">>
PostTitlePolicy == "Post Title"

\* 'i.imgur', "/a/", '/gallery/' and the canonical direct host
DirectMarker == <<"i", ".", "i", "m", "g", "u", "r">>
AlbumMarker == <<"/", "a", "/">>
GalleryMarker == <<"/", "g", "a", "l", "l", "e", "r", "y", "/">>
ImgurDirectDomain ==
    <<"h", "t", "t", "p", "s", ":", "/", "/", "i", ".", "i", "m", "g", "u", "r", ".", "c", "o", "m", "/">>
\* the tuple tested by ImgurExtractor.extract_content and the list scanned
\* by extract_direct_link / extract_direct_mislinked
ImgurSuffixes == <<DotJpg, Jpeg, DotPng, DotGif, DotGifv, DotMp4, DotWebm>>
ImgurExtensions == <<DotJpg, DotJpeg, DotPng, DotGif, DotGifv, DotMp4, DotWebm>>

GfycatSuffixes == <<Webm, Gif, Gifv>>
GfycatApiCaller ==
    <<"h", "t", "t", "p", "s", ":", "/", "/", "g", "f", "y", "c", "a", "t", ".", "c", "o", "m",
      "/", "c", "a", "j", "a", "x", "/", "g", "e", "t", "/">>

ShowMarker == <<"/", "s", "h", "o", "w", "/">>
ExploreMarker == <<"/", "e", "x", "p", "l", "o", "r", "e", "/">>
VidbleAlbumMarker == <<"/", "a", "l", "b", "u", "m", "/">>
VidbleSuffixes == <<DotJpg, Jpeg, DotPng, DotGif, DotGifv, DotMp4, Webm>>
VidbleBase ==
    <<"h", "t", "t", "p", "s", ":", "/", "/", "v", "i", "d", "b", "l", "e", ".", "c", "o", "m">>
Img2 == "img2"

(***************************************************************************)
(* Values                                                                  *)
(*                                                                         *)
(* None / an unbound name / an empty '' argument is the empty sequence and *)
(* a present value v is the one-element sequence <<v>> wherever a Python   *)
(* value may be absent (a return value, a credit counter, the count        *)
(* argument of Content); an absent url is the empty url.                   *)
(***************************************************************************)
None == <<>>
Some(v) == <<v>>

\* exceptions: the class name and, for ImgurClientError, e.status_code
NoExc == [type |-> "none", status |-> "None"]
Exc(t) == [type |-> t, status |-> "None"]
ImgurClientError(code) == [type |-> "ImgurClientError", status |-> code]
ImgurClientRateLimitError == Exc("ImgurClientRateLimitError")

\* Core.Content.Content(url, user, post_title, subreddit, file_name, count,
\* extension, ...): the arguments the extractors compute
Content(req, u, file_name, count, extension) ==
    [kind |-> "content", url |-> u, user |-> req.user, post_title |-> req.post_title,
     subreddit |-> req.subreddit, file_name |-> file_name, count |-> count,
     extension |-> extension, date_created |-> req.creation_date]

\* Core.Post.Post(url, user, post_title, subreddit, creation_date)
Post(u, user, title, subreddit, date) ==
    [url |-> u, user |-> user, post_title |-> title, subreddit |-> subreddit,
     creation_date |-> date]

\* a human-readable failure string, identified by its wording
Message(text) == [kind |-> "message", text |-> text]

\* the output lists of one instance plus the calls it has made so far
\*   ec, fm, fs : extracted_content, failed_extract_messages, failed_extracts_to_save
\*   api        : calls made on the ImgurClient
\*   net        : urls passed to requests.get
EmptySelf == [ec |-> <<>>, fm |-> <<>>, fs |-> <<>>, api |-> <<>>, net |-> <<>>]

\* outcome of a method: the instance afterwards, the exception that leaves
\* it (NoExc: returns normally) and its return value
Return(s, v) == [s |-> s, exc |-> NoExc, ret |-> v]
Raise(s, e) == [s |-> s, exc |-> e, ret |-> None]

\* file_name = self.post_title if self.name_downloads_by == 'Post Title' else <id>
FileName(req, id) ==
    IF req.name_downloads_by = PostTitlePolicy THEN req.post_title ELSE id

(***************************************************************************)
(* Extractor.get_json / get_text                                            *)
(*                                                                         *)
(* resp is what requests.get does: raise, or a response with a status      *)
(* code, possibly a Content-Type header, and a body.                       *)
(***************************************************************************)
BadResponseJson(s, u) ==
    Return([s EXCEPT !.ec = Append(@, Message("Failed to retrieve json data"))], None)

BadResponseText(s, u) ==
    Return([s EXCEPT !.ec = Append(@, Message("Failed to retrieve data"))], None)

get_json(s0, u, resp) ==
    LET s == [s0 EXCEPT !.net = Append(@, u)] IN
    IF resp.raises THEN Raise(s, Exc("ConnectionError"))
    ELSE IF resp.status = "200"
    THEN IF ~resp.has_ctype THEN Raise(s, Exc("KeyError"))
         ELSE IF Contains(resp.ctype, JsonWord)
         THEN IF resp.json.valid THEN Return(s, Some(resp.json))
              ELSE Raise(s, Exc("ValueError"))
         ELSE BadResponseJson(s, u)
    ELSE BadResponseJson(s, u)

get_text(s0, u, resp) ==
    LET s == [s0 EXCEPT !.net = Append(@, u)] IN
    IF resp.raises THEN Raise(s, Exc("ConnectionError"))
    ELSE IF resp.status = "200"
    THEN IF ~resp.has_ctype THEN Raise(s, Exc("KeyError"))
         ELSE IF Contains(resp.ctype, TextWord)
         THEN Return(s, Some(resp.imgs))
         ELSE BadResponseText(s, u)
    ELSE BadResponseText(s, u)

(***************************************************************************)
(* ImgurExtractor                                                          *)
(*                                                                         *)
(* has_client: whether __init__ assigned self.client.  remote is what the  *)
(* ImgurClient does when asked: remote.image answers get_image,            *)
(* remote.album answers get_album_images (each either raises or returns    *)
(* records with link, type, animated, mp4), and remote.credits is          *)
(* client.credits['ClientRemaining'] after the call.                       *)
(***************************************************************************)
\* rate_limit_exceeded_error without the append to failed_extracts_to_save
rate_limit_exceeded_error_unsaved(req, s) ==
    [s EXCEPT !.fm = Append(@, Message("Imgur rate limit exceeded"))]

rate_limit_exceeded_error(req, s) ==
    [s EXCEPT !.fs = Append(@, Post(req.url, req.user, req.post_title, req.subreddit,
                                    req.creation_date)),
              !.fm = Append(@, Message("Imgur rate limit exceeded"))]

\* no_credit_error without the append to failed_extract_messages
no_credit_error_unreported(req, s) ==
    [s EXCEPT !.fs = Append(@, Post(req.url, req.user, req.post_title, req.subreddit,
                                    req.creation_date))]

no_credit_error(req, s) ==
    [s EXCEPT !.fs = Append(@, Post(req.url, req.user, req.post_title, req.subreddit,
                                    req.creation_date)),
              !.fm = Append(@, Message("not enough imgur credits"))]

over_capacity_error(req, s) ==
    [s EXCEPT !.fs = Append(@, Post(req.url, req.user, req.post_title, req.subreddit,
                                    req.creation_date)),
              !.fm = Append(@, Message("Imgur is currently over capacity"))]

does_not_exist_error(req, s) ==
    [s EXCEPT !.fm = Append(@, Message("The content does not exist"))]

failed_to_locate_error(req, s) ==
    [s EXCEPT !.fm = Append(@, Message("Failed to locate the content"))]

\* the loop that opens extract_direct_link and extract_direct_mislinked:
\* the local name url after the first k extensions of the list were tried
\* (None while url is still unbound)
RECURSIVE TruncateAtExtension(_, _)
TruncateAtExtension(u, k) ==
    IF k = 0 THEN None
    ELSE LET ext == ImgurExtensions[k] IN
         IF Contains(u, ext)
         THEN Some(SubSeq(u, 1, Find(u, ext) - 1) \o ext)
         ELSE TruncateAtExtension(u, k - 1)

\* IsAnimatedGif without the test of pic.animated
IsGif(pic) == pic.type = ImageGif

\* pic.type == 'image/gif' and pic.animated
IsAnimatedGif(pic) == pic.type = ImageGif /\ pic.animated

\* self.client.get_image(image_id) inside a method: AttributeError when the
\* instance has no client attribute, else the call is made and answered
client_get_image(has_client, s, image_id, remote) ==
    IF ~has_client THEN Raise(s, Exc("AttributeError"))
    ELSE LET s1 == [s EXCEPT !.api = Append(@, [call |-> "get_image", id |-> image_id])] IN
         IF remote.image.raises # NoExc THEN Raise(s1, remote.image.raises)
         ELSE Return(s1, Some(remote.image.pic))

client_get_album_images(has_client, s, album_id, remote) ==
    IF ~has_client THEN Raise(s, Exc("AttributeError"))
    ELSE LET s1 == [s EXCEPT !.api = Append(@, [call |-> "get_album_images", id |-> album_id])] IN
         IF remote.album.raises # NoExc THEN Raise(s1, remote.album.raises)
         ELSE Return(s1, Some(remote.album.pics))

\* the try block shared by extract_direct_link and extract_direct_mislinked,
\* from the url the method parses (u) on
DirectLinkBody(req, has_client, s, u, id_with_ext, remote) ==
    LET idext == RSplit(id_with_ext, Dot) IN
    IF Len(idext) # 2 THEN Raise(s, Exc("ValueError"))
    ELSE LET image_id == idext[1]
             extension == idext[2]
             file_name == FileName(req, image_id)
         IN
         IF EndsWith(u, Gifv) \/ EndsWith(u, Gif)
         THEN LET r == client_get_image(has_client, s, image_id, remote) IN
              IF r.exc # NoExc THEN r
              ELSE LET picture == r.ret[1]
                       u2 == IF IsAnimatedGif(picture) THEN picture.mp4 ELSE u
                       ext2 == IF IsAnimatedGif(picture) THEN Mp4 ELSE extension
                   IN Return([r.s EXCEPT !.ec = Append(@,
                                 Content(req, u2, file_name, None, <<Dot>> \o ext2))], None)
         ELSE Return([s EXCEPT !.ec = Append(@,
                         Content(req, u, file_name, None, <<Dot>> \o extension))], None)

UnrecognizedExtension(s) ==
    Return([s EXCEPT !.fm = Append(@, Message("Unrecognized file extension"))], None)

Imgur_extract_direct_link(req, has_client, s, remote) ==
    LET bound == TruncateAtExtension(req.url, Len(ImgurExtensions)) IN
    IF bound = None THEN UnrecognizedExtension(s)
    ELSE LET u == bound[1]
             parts == RSplit(u, Slash)
         IN IF Len(parts) # 2 THEN Raise(s, Exc("ValueError"))
            ELSE DirectLinkBody(req, has_client, s, u, parts[2], remote)

Imgur_extract_direct_mislinked(req, has_client, s, remote) ==
    LET bound == TruncateAtExtension(req.url, Len(ImgurExtensions)) IN
    IF bound = None THEN UnrecognizedExtension(s)
    ELSE LET parts == RSplit(bound[1], Slash) IN
         IF Len(parts) # 2 THEN Raise(s, Exc("ValueError"))
         ELSE DirectLinkBody(req, has_client, s, ImgurDirectDomain \o parts[2], parts[2], remote)

\* AlbumLoop discarding the items appended so far when a picture fails
RECURSIVE AlbumLoopRollsBack(_, _, _, _, _)
AlbumLoopRollsBack(req, s, album_id, pics, k) ==
    IF k > Len(pics) THEN Return(s, None)
    ELSE LET pic == pics[k]
             parts == RSplit(pic.link, Dot)
         IN IF Len(parts) # 2 THEN Raise([s EXCEPT !.ec = <<>>], Exc("ValueError"))
            ELSE LET file_name == FileName(req, album_id)
                     extension == IF IsAnimatedGif(pic) THEN Mp4 ELSE parts[2]
                     u == IF IsAnimatedGif(pic) THEN pic.mp4 ELSE pic.link
                     x == Content(req, u, file_name \o <<" ">>, Some(k), <<Dot>> \o extension)
                 IN AlbumLoopRollsBack(req, [s EXCEPT !.ec = Append(@, x)], album_id, pics, k + 1)

\* the for loop of extract_album from picture k on, count being k
RECURSIVE AlbumLoop(_, _, _, _, _)
AlbumLoop(req, s, album_id, pics, k) ==
    IF k > Len(pics) THEN Return(s, None)
    ELSE LET pic == pics[k]
             parts == RSplit(pic.link, Dot)
         IN IF Len(parts) # 2 THEN Raise(s, Exc("ValueError"))
            ELSE LET file_name == FileName(req, album_id)
                     extension == IF IsAnimatedGif(pic) THEN Mp4 ELSE parts[2]
                     u == IF IsAnimatedGif(pic) THEN pic.mp4 ELSE pic.link
                     x == Content(req, u, file_name \o <<" ">>, Some(k), <<Dot>> \o extension)
                 IN AlbumLoop(req, [s EXCEPT !.ec = Append(@, x)], album_id, pics, k + 1)

Imgur_extract_album(req, has_client, s, remote) ==
    LET parts == RSplit(req.url, Slash) IN
    IF Len(parts) # 2 THEN Raise(s, Exc("ValueError"))
    ELSE LET r == client_get_album_images(has_client, s, parts[2], remote) IN
         IF r.exc # NoExc THEN r
         ELSE AlbumLoop(req, r.s, parts[2], r.ret[1], 1)

Imgur_extract_single(req, has_client, s, remote) ==
    LET parts == RSplit(req.url, Slash) IN
    IF Len(parts) # 2 THEN Raise(s, Exc("ValueError"))
    ELSE LET image_id == parts[2]
             r == client_get_image(has_client, s, image_id, remote)
         IN IF r.exc # NoExc THEN r
            ELSE LET pic == r.ret[1]
                     lparts == RSplit(pic.link, Dot)
                 IN IF Len(lparts) # 2 THEN Raise(r.s, Exc("ValueError"))
                    ELSE LET file_name == FileName(req, image_id)
                             extension == IF IsAnimatedGif(pic) THEN Mp4 ELSE lparts[2]
                             u == IF IsAnimatedGif(pic) THEN pic.mp4 ELSE pic.link
                         IN Return([r.s EXCEPT !.ec = Append(@,
                                Content(req, u, file_name, None, <<Dot>> \o extension))], None)

\* ImgurPath with the extension test moved ahead of the '/a/' test
ImgurPathExtensionFirst(u) ==
    IF Contains(u, DirectMarker) THEN "direct_link"
    ELSE IF EndsWithAny(Lower(u), ImgurSuffixes) THEN "direct_mislinked"
    ELSE IF Contains(u, AlbumMarker) THEN "album"
    ELSE IF Contains(u, GalleryMarker) THEN "gallery"
    ELSE "single"

\* the if / elif chain of extract_content: the method it calls
ImgurPath(u) ==
    IF Contains(u, DirectMarker) THEN "direct_link"
    ELSE IF Contains(u, AlbumMarker) THEN "album"
    ELSE IF Contains(u, GalleryMarker) THEN "gallery"
    ELSE IF EndsWithAny(Lower(u), ImgurSuffixes) THEN "direct_mislinked"
    ELSE "single"

\* the body of the try block of extract_content; the gallery branch has its
\* own try / except: pass
ImgurTry(req, has_client, s, remote) ==
    LET path == ImgurPath(req.url) IN
    CASE path = "direct_link" -> Imgur_extract_direct_link(req, has_client, s, remote)
      [] path = "album" -> Imgur_extract_album(req, has_client, s, remote)
      [] path = "gallery" ->
            LET r == Imgur_extract_album(req, has_client, s, remote) IN
            IF r.exc # NoExc THEN Return(r.s, None) ELSE r
      [] path = "direct_mislinked" -> Imgur_extract_direct_mislinked(req, has_client, s, remote)
      [] OTHER -> Imgur_extract_single(req, has_client, s, remote)

\* except ImgurClientError as e: four independent if statements
ImgurClientErrorHandler(req, s, e, remote) ==
    LET s403 == IF e.status = "403"
                THEN IF remote.credits = None THEN failed_to_locate_error(req, s)
                     ELSE IF remote.credits[1] <= 0 THEN no_credit_error(req, s)
                     ELSE failed_to_locate_error(req, s)
                ELSE s
        s429 == IF e.status = "429" THEN rate_limit_exceeded_error(req, s403) ELSE s403
        s500 == IF e.status = "500" THEN over_capacity_error(req, s429) ELSE s429
        s404 == IF e.status = "404" THEN does_not_exist_error(req, s500) ELSE s500
    IN s404

Imgur_extract_content(req, has_client, s, remote) ==
    LET r == ImgurTry(req, has_client, s, remote) IN
    IF r.exc = NoExc THEN Return(r.s, None)
    ELSE IF r.exc.type = "ImgurClientError"
    THEN Return(ImgurClientErrorHandler(req, r.s, r.exc, remote), None)
    ELSE IF r.exc.type = "ImgurClientRateLimitError"
    THEN Return(rate_limit_exceeded_error(req, r.s), None)
    ELSE Return(failed_to_locate_error(req, r.s), None)

\* ImgurExtractor.__init__ after the base constructor: ctor is what
\* ImgurClient(id, secret) does (NoExc: it returns a client)
Imgur_init(req, client_id, client_secret, ctor) ==
    IF client_id = None \/ client_secret = None
    THEN [s |-> [EmptySelf EXCEPT !.fm = Append(@, Message("No valid Imgur client"))],
          has_client |-> FALSE, exc |-> NoExc]
    ELSE IF ctor = NoExc
    THEN [s |-> EmptySelf, has_client |-> TRUE, exc |-> NoExc]
    ELSE IF ctor.type = "ImgurClientError"
    THEN [s |-> IF ctor.status = "500" THEN over_capacity_error(req, EmptySelf) ELSE EmptySelf,
          has_client |-> FALSE, exc |-> NoExc]
    ELSE [s |-> EmptySelf, has_client |-> FALSE, exc |-> ctor]

(***************************************************************************)
(* GfycatExtractor                                                         *)
(***************************************************************************)
Gfycat_extract_direct_link(req, s) ==
    LET parts == RSplit(req.url, Slash) IN
    IF Len(parts) # 2 THEN Raise(s, Exc("ValueError"))
    ELSE LET idext == RSplit(parts[2], Dot) IN
         IF Len(idext) # 2 THEN Raise(s, Exc("ValueError"))
         ELSE Return([s EXCEPT !.ec = Append(@,
                  Content(req, req.url, FileName(req, idext[1]), None, <<Dot>> \o idext[2]))], None)

Gfycat_extract_single(req, s, resp) ==
    LET parts == RSplit(req.url, Slash) IN
    IF Len(parts) # 2 THEN Raise(s, Exc("ValueError"))
    ELSE LET gif_id == parts[2]
             r == get_json(s, GfycatApiCaller \o gif_id, resp)
         IN IF r.exc # NoExc THEN r
            \* gfy_json.get(...) on None, and .get('webmUrl') on a missing gfyItem
            ELSE IF r.ret = None THEN Raise(r.s, Exc("AttributeError"))
            ELSE IF ~r.ret[1].has_item THEN Raise(r.s, Exc("AttributeError"))
            ELSE Return([r.s EXCEPT !.ec = Append(@,
                     Content(req, r.ret[1].webm_url, FileName(req, gif_id), None, DotWebm))], None)

GfycatPath(u) ==
    IF EndsWithAny(Lower(u), GfycatSuffixes) THEN "direct_link" ELSE "single"

\* GenericHandler as it would be with "except ValueError:" for the bare except
GenericHandlerValueErrorOnly(r) ==
    IF r.exc = NoExc THEN Return(r.s, None)
    ELSE IF r.exc.type = "ValueError"
    THEN Return([r.s EXCEPT !.ec = Append(@, Message("Failed to locate the content"))], None)
    ELSE r

\* the except clause of the Gfycat, Vidble and RedditUploads extract_content
GenericHandler(r) ==
    IF r.exc = NoExc THEN Return(r.s, None)
    ELSE Return([r.s EXCEPT !.ec = Append(@, Message("Failed to locate the content"))], None)

Gfycat_extract_content(req, s, resp) ==
    GenericHandler(IF GfycatPath(req.url) = "direct_link"
                   THEN Gfycat_extract_direct_link(req, s)
                   ELSE Gfycat_extract_single(req, s, resp))

(***************************************************************************)
(* VidbleExtractor                                                         *)
(*                                                                         *)
(* A page is the list soup.find_all('img') yields for it; an <img> has a   *)
(* class attribute (None, or its first token) and a src (None or a link).  *)
(***************************************************************************)
\* VidbleLoop with "count += 1" moved out of the two if statements
RECURSIVE VidbleLoopCountsEveryTag(_, _, _, _, _, _, _)
VidbleLoopCountsEveryTag(req, s, vidble_id, imgs, k, count, numbered) ==
    IF k > Len(imgs) THEN Return(s, None)
    ELSE LET img == imgs[k] IN
         IF img.class # None /\ img.class[1] = Img2 /\ img.src # None
         THEN LET link == img.src[1]
                  parts == RSplit(link, Dot)
              IN
              IF Len(parts) # 2 THEN Raise(s, Exc("ValueError"))
              ELSE LET x == Content(req, VidbleBase \o link, FileName(req, vidble_id),
                                    IF numbered THEN Some(count) ELSE None,
                                    <<Dot>> \o parts[2])
                   IN VidbleLoopCountsEveryTag(req, [s EXCEPT !.ec = Append(@, x)], vidble_id,
                                               imgs, k + 1, count + 1, numbered)
         ELSE VidbleLoopCountsEveryTag(req, s, vidble_id, imgs, k + 1, count + 1, numbered)

\* the for loop of extract_single / extract_album from element k on;
\* numbered: extract_album (count is passed and incremented)
RECURSIVE VidbleLoop(_, _, _, _, _, _, _)
VidbleLoop(req, s, vidble_id, imgs, k, count, numbered) ==
    IF k > Len(imgs) THEN Return(s, None)
    ELSE LET img == imgs[k] IN
         IF img.class # None /\ img.class[1] = Img2 /\ img.src # None
         THEN LET link == img.src[1]
                  parts == RSplit(link, Dot)
              IN
              IF Len(parts) # 2 THEN Raise(s, Exc("ValueError"))
              ELSE LET x == Content(req, VidbleBase \o link, FileName(req, vidble_id),
                                    IF numbered THEN Some(count) ELSE None,
                                    <<Dot>> \o parts[2])
                   IN VidbleLoop(req, [s EXCEPT !.ec = Append(@, x)], vidble_id, imgs, k + 1,
                                 IF numbered THEN count + 1 ELSE count, numbered)
         ELSE VidbleLoop(req, s, vidble_id, imgs, k + 1, count, numbered)

\* BeautifulSoup(self.get_text(self.url), 'html.parser') and the loop
VidbleScrape(req, s, vidble_id, resp, numbered) ==
    LET r == get_text(s, req.url, resp) IN
    IF r.exc # NoExc THEN r
    ELSE IF r.ret = None THEN Raise(r.s, Exc("TypeError"))
    ELSE VidbleLoop(req, r.s, vidble_id, r.ret[1], 1, 1, numbered)

Vidble_extract_single(req, s, resp) ==
    LET parts == RSplit(req.url, Slash) IN
    IF Len(parts) # 2 THEN Raise(s, Exc("ValueError"))
    ELSE LET vidble_id == IF Contains(parts[2], <<Dot>>)
                          THEN SubSeq(parts[2], 1, RFind(parts[2], Dot) - 1)
                          ELSE parts[2]
         IN VidbleScrape(req, s, vidble_id, resp, FALSE)

Vidble_extract_album(req, s, resp) ==
    LET parts == RSplit(req.url, Slash) IN
    IF Len(parts) # 2 THEN Raise(s, Exc("ValueError"))
    ELSE VidbleScrape(req, s, parts[2], resp, TRUE)

Vidble_extract_direct_link(req, s) ==
    LET parts == RSplit(req.url, Slash) IN
    IF Len(parts) # 2 THEN Raise(s, Exc("ValueError"))
    ELSE LET idext == RSplit(parts[2], Dot) IN
         IF Len(idext) # 2 THEN Raise(s, Exc("ValueError"))
         ELSE Return([s EXCEPT !.ec = Append(@,
                  Content(req, req.url, FileName(req, idext[1]), None, <<Dot>> \o idext[2]))], None)

VidblePath(u) ==
    IF Contains(u, ShowMarker) \/ Contains(u, ExploreMarker) THEN "single"
    ELSE IF Contains(u, VidbleAlbumMarker) THEN "album"
    ELSE IF EndsWithAny(Lower(u), VidbleSuffixes) THEN "direct_link"
    ELSE "fallback"

Vidble_extract_content(req, s, resp) ==
    LET path == VidblePath(req.url) IN
    GenericHandler(CASE path = "single" -> Vidble_extract_single(req, s, resp)
                     [] path = "album" -> Vidble_extract_album(req, s, resp)
                     [] path = "direct_link" -> Vidble_extract_direct_link(req, s)
                     [] OTHER -> Vidble_extract_album(req, s, resp))

(***************************************************************************)
(* RedditUploadsExtractor and DirectExtractor                              *)
(***************************************************************************)
RedditUploads_extract_content(req, s) ==
    GenericHandler(Return([s EXCEPT !.ec = Append(@,
        Content(req, req.url \o DotJpg, req.post_title, None, DotJpg))], None))

Direct_extract_content(req, s) ==
    LET parts == RSplit(req.url, Slash) IN
    IF Len(parts) # 2 THEN Raise(s, Exc("ValueError"))
    ELSE LET idext == RSplit(parts[2], Dot) IN
         IF Len(idext) # 2 THEN Raise(s, Exc("ValueError"))
         ELSE Return([s EXCEPT !.ec = Append(@,
                  Content(req, req.url, FileName(req, idext[1]), None, <<Dot>> \o idext[2]))], None)

(***************************************************************************)
(* Inputs: post urls, settings and what the remote hosts answer            *)
(***************************************************************************)
SeqsUpTo(S, n) == UNION {[1..k -> S] : k \in 0..n}

ImgurCom == <<"i", "m", "g", "u", "r", ".", "c", "o", "m">>
IImgurCom == <<"i", ".">> \o ImgurCom
Ab == <<"a", "b">>

ImgurUrls ==
    { ImgurDirectDomain \o Ab \o DotJpg,                      \* https://i.imgur.com/ab.jpg
      IImgurCom \o <<"/">> \o Ab \o DotJpg \o <<"?", "1">>,   \* i.imgur.com/ab.jpg?1
      IImgurCom \o <<"/">> \o Ab \o DotGif,                   \* i.imgur.com/ab.gif
      IImgurCom \o <<"/">> \o Ab \o DotGifv,                  \* i.imgur.com/ab.gifv
      IImgurCom \o <<"/">> \o Ab,                             \* i.imgur.com/ab
      DirectMarker \o DotPng,                                 \* i.imgur.png
      IImgurCom \o AlbumMarker \o Ab \o DotPng,               \* i.imgur.com/a/ab.png
      ImgurCom \o AlbumMarker \o Ab,                          \* imgur.com/a/ab
      ImgurCom \o AlbumMarker \o Ab \o DotPng,                \* imgur.com/a/ab.png
      ImgurCom \o AlbumMarker \o <<"g", "a", "l", "l", "e", "r", "y", "/">> \o Ab,
                                                              \* imgur.com/a/gallery/ab
      ImgurCom \o GalleryMarker \o Ab,                        \* imgur.com/gallery/ab
      ImgurCom \o GalleryMarker \o Ab \o DotGif,              \* imgur.com/gallery/ab.gif
      ImgurCom \o <<"/">> \o Ab \o <<".", "P", "N", "G">>,    \* imgur.com/ab.PNG
      ImgurCom \o <<"/">> \o Ab \o DotGif,                    \* imgur.com/ab.gif
      ImgurCom \o <<"/">> \o Ab \o Jpeg,                      \* imgur.com/abjpeg
      <<"i", "m", "g", "u", "r">> \o DotGif,                  \* imgur.gif
      ImgurCom \o <<"/">> \o Ab,                              \* imgur.com/ab
      <<"i", "m", "g", "u", "r">> }                           \* imgur

GfycatCom == <<"g", "f", "y", "c", "a", "t", ".", "c", "o", "m">>

GfycatUrls ==
    { GfycatCom \o <<"/">> \o Ab \o DotGif,                   \* gfycat.com/ab.gif
      GfycatCom \o <<"/">> \o Ab \o DotGifv,                  \* gfycat.com/ab.gifv
      GfycatCom \o <<"/">> \o Ab \o <<".", "W", "E", "B", "M">>,  \* gfycat.com/ab.WEBM
      GfycatCom \o <<"/">> \o <<"B", "i", "g", "G", "i", "f">>,   \* gfycat.com/BigGif
      <<"g", "f", "y", "c", "a", "t">> \o DotGif,             \* gfycat.gif
      GfycatCom \o <<"/">> \o Ab,                             \* gfycat.com/ab
      <<"g", "f", "y", "c", "a", "t">> }                      \* gfycat

VidbleCom == <<"v", "i", "d", "b", "l", "e", ".", "c", "o", "m">>

VidbleUrls ==
    { VidbleCom \o ShowMarker \o Ab,                          \* vidble.com/show/ab
      VidbleCom \o ExploreMarker \o Ab \o <<".", "x">>,       \* vidble.com/explore/ab.x
      VidbleCom \o ShowMarker \o <<"a", "l", "b", "u", "m", "/">> \o Ab,
                                                              \* vidble.com/show/album/ab
      VidbleCom \o VidbleAlbumMarker \o Ab,                   \* vidble.com/album/ab
      VidbleCom \o VidbleAlbumMarker \o Ab \o DotJpg,         \* vidble.com/album/ab.jpg
      VidbleCom \o <<"/">> \o Ab \o DotJpg,                   \* vidble.com/ab.jpg
      VidbleCom \o <<"/">> \o Ab \o Jpeg,                     \* vidble.com/abjpeg
      <<"v", "i", "d", "b", "l", "e">> \o DotPng,             \* vidble.png
      VidbleCom \o <<"/">> \o Ab,                             \* vidble.com/ab
      <<"v", "i", "d", "b", "l", "e">> }                      \* vidble

OtherUrls ==
    { <<"h", "o", "s", "t", "/">> \o Ab \o DotJpg,            \* host/ab.jpg
      <<"h", "o", "s", "t", "/">> \o Ab,                      \* host/ab
      <<"h", "o", "s", "t">> \o DotJpg,                       \* host.jpg
      <<"h", "o", "s", "t">> }                                \* host

Title == <<"T", "i", "t", "l", "e">>
NamingPolicies == {PostTitlePolicy, "Image Id"}

Requests(urls) ==
    [url : urls, user : {"user"}, post_title : {Title}, subreddit : {"sub"},
     creation_date : {"date"}, name_downloads_by : NamingPolicies]

NoRequest ==
    [url |-> <<>>, user |-> "", post_title |-> <<>>, subreddit |-> "",
     creation_date |-> "", name_downloads_by |-> ""]

\* settings_manager.imgur_client_id / imgur_client_secret
Credentials == {None, Some("configured")}
NoSettings == [imgur_client_id |-> None, imgur_client_secret |-> None]

\* what ImgurClient(...) can do at construction
ClientConstructions ==
    {NoExc, ImgurClientError("500"), ImgurClientError("403"), ImgurClientRateLimitError}

\* image records of the Imgur API
Pic(name, ext, type, animated) ==
    [link |-> ImgurDirectDomain \o name \o ext, type |-> type, animated |-> animated,
     mp4 |-> IF animated THEN ImgurDirectDomain \o name \o DotMp4 ELSE <<>>]

ImageJpeg == <<"i", "m", "a", "g", "e", "/", "j", "p", "e", "g">>
VideoMp4 == <<"v", "i", "d", "e", "o", "/", "m", "p", "4">>

Pics ==
    { Pic(<<"p", "1">>, DotGif, ImageGif, TRUE),
      Pic(<<"p", "2">>, DotGif, ImageGif, FALSE),
      Pic(<<"p", "3">>, DotJpg, ImageJpeg, FALSE),
      Pic(<<"p", "5">>, DotMp4, VideoMp4, TRUE),
      [link |-> <<"p", "4">>, type |-> ImageJpeg, animated |-> FALSE, mp4 |-> <<>>] }

NoPic == [link |-> <<>>, type |-> <<>>, animated |-> FALSE, mp4 |-> <<>>]

\* exceptions an ImgurClient call can end with
ClientFailures ==
    { ImgurClientError("403"), ImgurClientError("429"), ImgurClientError("500"),
      ImgurClientError("404"), ImgurClientError("400"), ImgurClientError("None"),
      ImgurClientRateLimitError, Exc("ConnectionError") }

\* client.credits['ClientRemaining']
Credits == {None, Some(-1), Some(0), Some(5)}

ImageAnswers ==
    {[raises |-> NoExc, pic |-> p] : p \in Pics}
        \cup {[raises |-> e, pic |-> NoPic] : e \in ClientFailures}
AlbumAnswers ==
    {[raises |-> NoExc, pics |-> ps] : ps \in SeqsUpTo(Pics, MaxImages)}
        \cup {[raises |-> e, pics |-> <<>>] : e \in ClientFailures}
NoImageAnswer == [raises |-> NoExc, pic |-> NoPic]
NoAlbumAnswer == [raises |-> NoExc, pics |-> <<>>]

\* the credit counter is read only after a 403
CreditsAfter(e) == IF e.status = "403" THEN Credits ELSE {None}

\* the answers the path taken for url u can consult
ImgurRemotes(u) ==
    IF ImgurPath(u) \in {"album", "gallery"}
    THEN UNION {{[image |-> NoImageAnswer, album |-> a, credits |-> c] :
                    c \in CreditsAfter(a.raises)} : a \in AlbumAnswers}
    ELSE UNION {{[image |-> i, album |-> NoAlbumAnswer, credits |-> c] :
                    c \in CreditsAfter(i.raises)} : i \in ImageAnswers}
NoRemote == [image |-> NoImageAnswer, album |-> NoAlbumAnswer, credits |-> None]

\* <img> elements of a Vidble page
ImgElements ==
    { [class |-> Some(Img2), src |-> Some(<<"/", "v", "1">> \o DotJpg)],
      [class |-> Some(Img2), src |-> Some(<<"/", "v", "2">> \o DotPng)],
      [class |-> Some("thumb"), src |-> Some(<<"/", "v", "3">> \o DotJpg)],
      [class |-> None, src |-> Some(<<"/", "v", "4">> \o DotJpg)],
      [class |-> Some(Img2), src |-> None],
      [class |-> Some(Img2), src |-> Some(<<"/", "v", "6">>)] }

Pages == SeqsUpTo(ImgElements, MaxImages)

TextHtml == <<"t", "e", "x", "t", "/", "h", "t", "m", "l">>
ApplicationJson ==
    <<"a", "p", "p", "l", "i", "c", "a", "t", "i", "o", "n", "/", "j", "s", "o", "n">>

NoJson == [valid |-> FALSE, has_item |-> FALSE, webm_url |-> <<>>]
JsonBodies ==
    { [valid |-> TRUE, has_item |-> TRUE,
       webm_url |-> <<"h", "t", "t", "p", "s", ":", "/", "/", "x", "/">> \o Ab \o DotWebm],
      [valid |-> TRUE, has_item |-> TRUE, webm_url |-> <<>>],
      [valid |-> TRUE, has_item |-> FALSE, webm_url |-> <<>>],
      NoJson }

Response(raises, status, has_ctype, ctype, json, imgs) ==
    [raises |-> raises, status |-> status, has_ctype |-> has_ctype, ctype |-> ctype,
     json |-> json, imgs |-> imgs]

\* what requests.get can do: raise, a bad status, a 200 without or with a
\* content type that lacks the word, or a 200 of the right type with a body
FailedResponses ==
    { Response(TRUE, "None", FALSE, <<>>, NoJson, <<>>),
      Response(FALSE, "404", TRUE, TextHtml, NoJson, <<>>),
      Response(FALSE, "404", TRUE, ApplicationJson, NoJson, <<>>),
      Response(FALSE, "200", FALSE, <<>>, NoJson, <<>>) }
JsonResponses ==
    FailedResponses
        \cup {Response(FALSE, "200", TRUE, TextHtml, NoJson, <<>>)}
        \cup {Response(FALSE, "200", TRUE, ApplicationJson, j, <<>>) : j \in JsonBodies}
TextResponses ==
    FailedResponses
        \cup {Response(FALSE, "200", TRUE, ApplicationJson, NoJson, <<>>)}
        \cup {Response(FALSE, "200", TRUE, TextHtml, NoJson, p) : p \in Pages}
NoResponse == Response(FALSE, "None", FALSE, <<>>, NoJson, <<>>)

(***************************************************************************)
(* The state machine: one instance, constructed, then one method call      *)
(***************************************************************************)
VARIABLES
    pc,                       \* "new", "ready" (constructed), "done" (the call returned
                              \* or raised), "failed" (the constructor raised)
    variant,                  \* the Extractor subclass
    request,                  \* the constructor arguments (self.url, self.user, ...)
    settings,                 \* the imgur credentials of the settings manager
    has_client,               \* whether self.client was assigned
    extracted_content,
    failed_extract_messages,
    failed_extracts_to_save,
    api_calls,                \* calls made on the ImgurClient
    http_requests,            \* urls passed to requests.get
    op,                       \* the method called on the instance
    path,                     \* the branch extract_content took
    answer,                   \* what the ImgurClient answered
    response,                 \* what requests.get answered
    raised,                   \* the exception that left the call (NoExc: none)
    ret                       \* the value get_json / get_text returned

vars ==
    <<pc, variant, request, settings, has_client, extracted_content,
      failed_extract_messages, failed_extracts_to_save, api_calls, http_requests,
      op, path, answer, response, raised, ret>>

Self ==
    [ec |-> extracted_content, fm |-> failed_extract_messages,
     fs |-> failed_extracts_to_save, api |-> api_calls, net |-> http_requests]

\* the instance's fields after a method left it in s
SetSelf(s) ==
    /\ extracted_content' = s.ec
    /\ failed_extract_messages' = s.fm
    /\ failed_extracts_to_save' = s.fs
    /\ api_calls' = s.api
    /\ http_requests' = s.net

Init ==
    /\ pc = "new"
    /\ variant = "none"
    /\ request = NoRequest
    /\ settings = NoSettings
    /\ has_client = FALSE
    /\ extracted_content = <<>>
    /\ failed_extract_messages = <<>>
    /\ failed_extracts_to_save = <<>>
    /\ api_calls = <<>>
    /\ http_requests = <<>>
    /\ op = "none"
    /\ path = "none"
    /\ answer = NoRemote
    /\ response = NoResponse
    /\ raised = NoExc
    /\ ret = None

\* Extractor.__init__ of the variants that add nothing to it
Construct(v, urls) ==
    /\ pc = "new"
    /\ \E req \in Requests(urls) : request' = req
    /\ variant' = v
    /\ pc' = "ready"
    /\ SetSelf(EmptySelf)
    /\ UNCHANGED <<settings, has_client, op, path, answer, response, raised, ret>>

GfycatConstruct == Construct("Gfycat", GfycatUrls)
VidbleConstruct == Construct("Vidble", VidbleUrls)
RedditUploadsConstruct == Construct("RedditUploads", OtherUrls)
DirectConstruct == Construct("Direct", OtherUrls)

ImgurConstruct ==
    /\ pc = "new"
    /\ \E req \in Requests(ImgurUrls), id \in Credentials, secret \in Credentials,
          ctor \in ClientConstructions :
          \* ImgurClient is only called with both credentials present
          /\ (id = None \/ secret = None) => ctor = NoExc
          /\ LET r == Imgur_init(req, id, secret, ctor) IN
             /\ request' = req
             /\ settings' = [imgur_client_id |-> id, imgur_client_secret |-> secret]
             /\ has_client' = r.has_client
             /\ SetSelf(r.s)
             /\ raised' = r.exc
             /\ pc' = IF r.exc = NoExc THEN "ready" ELSE "failed"
    /\ variant' = "Imgur"
    /\ op' = "__init__"
    /\ UNCHANGED <<path, answer, response, ret>>

\* the end of a call that left the instance as r.s
Finish(name, r) ==
    /\ SetSelf(r.s)
    /\ raised' = r.exc
    /\ ret' = r.ret
    /\ op' = name
    /\ pc' = "done"

ImgurExtractContent ==
    /\ pc = "ready" /\ variant = "Imgur"
    /\ \E remote \in ImgurRemotes(request.url) :
          /\ answer' = remote
          /\ Finish("extract_content", Imgur_extract_content(request, has_client, Self, remote))
    /\ path' = ImgurPath(request.url)
    /\ UNCHANGED <<variant, request, settings, has_client, response>>

GfycatExtractContent ==
    /\ pc = "ready" /\ variant = "Gfycat"
    /\ \E resp \in (IF GfycatPath(request.url) = "single" THEN JsonResponses ELSE {NoResponse}) :
          /\ response' = resp
          /\ Finish("extract_content", Gfycat_extract_content(request, Self, resp))
    /\ path' = GfycatPath(request.url)
    /\ UNCHANGED <<variant, request, settings, has_client, answer>>

VidbleExtractContent ==
    /\ pc = "ready" /\ variant = "Vidble"
    /\ \E resp \in (IF VidblePath(request.url) = "direct_link" THEN {NoResponse}
                    ELSE TextResponses) :
          /\ response' = resp
          /\ Finish("extract_content", Vidble_extract_content(request, Self, resp))
    /\ path' = VidblePath(request.url)
    /\ UNCHANGED <<variant, request, settings, has_client, answer>>

RedditUploadsExtractContent ==
    /\ pc = "ready" /\ variant = "RedditUploads"
    /\ Finish("extract_content", RedditUploads_extract_content(request, Self))
    /\ path' = "direct_link"
    /\ UNCHANGED <<variant, request, settings, has_client, answer, response>>

DirectExtractContent ==
    /\ pc = "ready" /\ variant = "Direct"
    /\ Finish("extract_content", Direct_extract_content(request, Self))
    /\ path' = "direct_link"
    /\ UNCHANGED <<variant, request, settings, has_client, answer, response>>

\* Extractor.get_json(url) / get_text(url) called on a constructed instance
GetJson ==
    /\ pc = "ready"
    /\ \E resp \in JsonResponses :
          /\ response' = resp
          /\ Finish("get_json", get_json(Self, request.url, resp))
    /\ UNCHANGED <<variant, request, settings, has_client, path, answer>>

GetText ==
    /\ pc = "ready"
    /\ \E resp \in TextResponses :
          /\ response' = resp
          /\ Finish("get_text", get_text(Self, request.url, resp))
    /\ UNCHANGED <<variant, request, settings, has_client, path, answer>>

Next ==
    \/ ImgurConstruct
    \/ GfycatConstruct
    \/ VidbleConstruct
    \/ RedditUploadsConstruct
    \/ DirectConstruct
    \/ ImgurExtractContent
    \/ GfycatExtractContent
    \/ VidbleExtractContent
    \/ RedditUploadsExtractContent
    \/ DirectExtractContent
    \/ GetJson
    \/ GetText

Spec == Init /\ [][Next]_vars

(***************************************************************************)
(* Vocabulary of the properties                                            *)
(***************************************************************************)
Extracted == pc = "done" /\ op = "extract_content"

HasSlash(u) == Contains(u, <<Slash>>)
HasDot(u) == Contains(u, <<Dot>>)

ContentItems == SelectSeq(extracted_content, LAMBDA x : x.kind = "content")
\* every failure string the instance holds, whichever list it was put in
MessagesIn(list) == SelectSeq(list, LAMBDA x : x.kind = "message")

\* the ImgurClient was asked, and this is how the call ended
ClientAsked == variant = "Imgur" /\ Extracted /\ api_calls # <<>>
ClientRaised ==
    IF path \in {"album", "gallery"} THEN answer.album.raises ELSE answer.image.raises

\* requests.get answered, and get_json / get_text took its else branch
BadResponse(word) ==
    /\ ~response.raises
    /\ \/ response.status # "200"
       \/ response.has_ctype /\ ~Contains(response.ctype, word)

(***************************************************************************)
(* C1: extract_content() of the Imgur, Gfycat, Vidble and RedditUploads    *)
(* extractors always returns normally: whatever the url (with or without   *)
(* a '/' or a '.') and whatever the remote side does, no exception leaves  *)
(* the call.                                                               *)
(***************************************************************************)
C1_NoExceptionEscapes ==
    (Extracted /\ variant \in {"Imgur", "Gfycat", "Vidble", "RedditUploads"})
        => raised = NoExc

\* a url without '/' made rsplit fail inside the Vidble fallback path and
\* the call still returned, the handler having recorded the failure
C1_Witness ==
    /\ Extracted /\ variant = "Vidble" /\ path = "fallback"
    /\ ~HasSlash(request.url)
    /\ raised = NoExc
    /\ MessagesIn(extracted_content) # <<>>

(***************************************************************************)
(* C2: when the Imgur client id or secret is absent, construction records  *)
(* exactly one failure message and extract_content() afterwards is a       *)
(* no-op for every url shape: no content item, no further failure          *)
(* message, no retryable failure.                                          *)
(***************************************************************************)
C2_NoOpWithoutCredentials ==
    (Extracted /\ variant = "Imgur"
       /\ (settings.imgur_client_id = None \/ settings.imgur_client_secret = None))
        => /\ failed_extract_messages = <<Message("No valid Imgur client")>>
           /\ extracted_content = <<>>
           /\ failed_extracts_to_save = <<>>

(***************************************************************************)
(* C3: when get_json / get_text gets a non-success status or a content     *)
(* type without 'json' / 'text', it returns no value, appends one failure  *)
(* message to failed_extract_messages and leaves extracted_content and     *)
(* failed_extracts_to_save unchanged.                                      *)
(***************************************************************************)
C3_BadResponseRecordedAsFailure ==
    [][(pc = "ready"
          /\ \/ op' = "get_json" /\ BadResponse(JsonWord)'
             \/ op' = "get_text" /\ BadResponse(TextWord)')
        => /\ ret' = None
           /\ Len(failed_extract_messages') = Len(failed_extract_messages) + 1
           /\ extracted_content' = extracted_content
           /\ failed_extracts_to_save' = failed_extracts_to_save]_vars

(***************************************************************************)
(* C4: every ImgurClientError raised during extract_content() on a         *)
(* non-gallery path appends exactly one failure message chosen by status   *)
(* code (403 with unknown or positive credits: failed to locate; 403 with  *)
(* credits <= 0: no credits; 429: rate limit; 500: over capacity; 404: no  *)
(* longer exists; any other code: failed to locate) and a retryable        *)
(* failure exactly for no credits, rate limit and over capacity.           *)
(***************************************************************************)
C4_Outcome(e) ==
    CASE e.status = "403" ->
            IF answer.credits # None /\ answer.credits[1] <= 0
            THEN "not enough imgur credits" ELSE "Failed to locate the content"
      [] e.status = "429" -> "Imgur rate limit exceeded"
      [] e.status = "500" -> "Imgur is currently over capacity"
      [] e.status = "404" -> "The content does not exist"
      [] OTHER -> "Failed to locate the content"

C4_Retryable ==
    {"not enough imgur credits", "Imgur rate limit exceeded", "Imgur is currently over capacity"}

C4_FailureTableExhaustive ==
    (ClientAsked /\ path # "gallery" /\ ClientRaised.type = "ImgurClientError")
        => /\ failed_extract_messages = <<Message(C4_Outcome(ClientRaised))>>
           /\ Len(failed_extracts_to_save) =
                 (IF C4_Outcome(ClientRaised) \in C4_Retryable THEN 1 ELSE 0)

(***************************************************************************)
(* C5: when the Imgur API answers 429 on any path, extract_content() ends  *)
(* with exactly one retryable failure carrying the instance's url, user,   *)
(* post title, subreddit and creation date, and exactly one rate limit     *)
(* message.  (As stated: gallery included.)                                *)
(***************************************************************************)
RateLimited ==
    /\ ClientAsked
    /\ ClientRaised \in {ImgurClientError("429"), ImgurClientRateLimitError}

RateLimitRecorded ==
    /\ failed_extracts_to_save =
          <<Post(request.url, request.user, request.post_title, request.subreddit,
                 request.creation_date)>>
    /\ failed_extract_messages = <<Message("Imgur rate limit exceeded")>>

C5_RateLimitOnAnyPath == RateLimited => RateLimitRecorded

\* C5 as amended: the same on every path but the gallery path (direct link,
\* album, mislinked direct link, single image)
C5_RateLimitOutsideGallery == (RateLimited /\ path # "gallery") => RateLimitRecorded

\* the album call was answered 429 after the url had been cut at its last '/'
C5_Witness ==
    /\ RateLimited /\ path = "album"
    /\ ClientRaised = ImgurClientError("429")
    /\ RateLimitRecorded

(***************************************************************************)
(* C6: on the album paths (Imgur album and gallery, Vidble album and       *)
(* fallback), when the remote source yields N images and no error occurs,  *)
(* exactly N content items are appended, the k-th of them is made from     *)
(* the k-th image, and its ordinal is k.                                   *)
(***************************************************************************)
\* the Imgur album was fetched and every image of it has a link to split
ImgurAlbumServed ==
    /\ ClientAsked /\ path \in {"album", "gallery"}
    /\ answer.album.raises = NoExc
    /\ \A k \in 1..Len(answer.album.pics) : HasDot(answer.album.pics[k].link)

\* the images a Vidble page holds: <img class="img2 ..." src=...>
VidbleImages ==
    SelectSeq(response.imgs, LAMBDA i : i.class = Some(Img2) /\ i.src # None)

\* the Vidble page was fetched and every image of it has a link to split
VidbleAlbumServed ==
    /\ variant = "Vidble" /\ Extracted /\ path \in {"album", "fallback"}
    /\ HasSlash(request.url)
    /\ ~response.raises /\ response.status = "200"
    /\ response.has_ctype /\ Contains(response.ctype, TextWord)
    /\ \A k \in 1..Len(VidbleImages) : HasDot(VidbleImages[k].src[1])

C6_AlbumItemsInOrder ==
    /\ ImgurAlbumServed =>
          /\ Len(extracted_content) = Len(answer.album.pics)
          /\ \A k \in 1..Len(extracted_content) :
                /\ extracted_content[k].kind = "content"
                /\ extracted_content[k].count = Some(k)
                /\ extracted_content[k].url =
                      (IF answer.album.pics[k].type = ImageGif /\ answer.album.pics[k].animated
                       THEN answer.album.pics[k].mp4 ELSE answer.album.pics[k].link)
    /\ VidbleAlbumServed =>
          /\ Len(extracted_content) = Len(VidbleImages)
          /\ \A k \in 1..Len(extracted_content) :
                /\ extracted_content[k].kind = "content"
                /\ extracted_content[k].count = Some(k)
                /\ extracted_content[k].url = VidbleBase \o VidbleImages[k].src[1]

\* an Imgur album of MaxImages images, the first two of them different,
\* came out as MaxImages items
C6_Witness ==
    /\ ImgurAlbumServed /\ path = "album"
    /\ Len(answer.album.pics) = MaxImages
    /\ answer.album.pics[1] # answer.album.pics[2]
    /\ Len(extracted_content) = MaxImages

(***************************************************************************)
(* C7: Imgur classification takes exactly one path per url, the first      *)
(* that matches in the order 'i.imgur' > '/a/' > '/gallery/' > media       *)
(* extension suffix > single image; a url with '/a/' that ends in '.png'   *)
(* and lacks 'i.imgur' takes the album path, not the mislinked one.        *)
(***************************************************************************)
C7_IsDirect == Contains(request.url, DirectMarker)
C7_IsAlbum == Contains(request.url, AlbumMarker)
C7_IsGallery == Contains(request.url, GalleryMarker)
C7_HasMediaSuffix ==
    \E suffix \in {DotJpg, Jpeg, DotPng, DotGif, DotGifv, DotMp4, DotWebm} :
        EndsWith(Lower(request.url), suffix)

C7_ClassificationOrder ==
    (variant = "Imgur" /\ Extracted) =>
        /\ C7_IsDirect => path = "direct_link"
        /\ (~C7_IsDirect /\ C7_IsAlbum) => path = "album"
        /\ (~C7_IsDirect /\ ~C7_IsAlbum /\ C7_IsGallery) => path = "gallery"
        /\ (~C7_IsDirect /\ ~C7_IsAlbum /\ ~C7_IsGallery /\ C7_HasMediaSuffix)
              => path = "direct_mislinked"
        /\ (~C7_IsDirect /\ ~C7_IsAlbum /\ ~C7_IsGallery /\ ~C7_HasMediaSuffix)
              => path = "single"
        \* one path only: one client call at most, and the call of that path
        /\ Len(api_calls) <= 1
        /\ \A k \in 1..Len(api_calls) :
              api_calls[k].call =
                 (IF path \in {"album", "gallery"} THEN "get_album_images" ELSE "get_image")

\* imgur.com/a/ab.png was handled as an album: the album call was made
C7_Witness ==
    /\ variant = "Imgur" /\ Extracted
    /\ C7_IsAlbum /\ EndsWith(request.url, DotPng) /\ ~C7_IsDirect
    /\ path = "album"
    /\ api_calls # <<>> /\ api_calls[1].call = "get_album_images"

(***************************************************************************)
(* C8: on every Imgur path that asks the API about an image (direct link,  *)
(* mislinked direct link, single image, album), an image reported as type  *)
(* 'image/gif' and animated yields an item with extension '.mp4' and the   *)
(* API's mp4 url; any other image keeps its own url and extension.         *)
(***************************************************************************)
\* item x was made from API record pic; own_url is the url the path had for
\* the image before it looked at the record
C8_Resolved(x, pic, own_url) ==
    IF pic.type = ImageGif /\ pic.animated
    THEN x.url = pic.mp4 /\ x.extension = DotMp4
    ELSE x.url = own_url /\ x.extension = <<Dot>> \o RSplit(own_url, Dot)[2]

C8_AnimatedGifResolution ==
    (ClientAsked /\ ClientRaised = NoExc) =>
        /\ path \in {"album", "gallery"} =>
              \A k \in 1..Len(extracted_content) :
                 C8_Resolved(extracted_content[k], answer.album.pics[k],
                             answer.album.pics[k].link)
        /\ (path = "single" /\ HasDot(answer.image.pic.link)) =>
              /\ Len(extracted_content) = 1
              /\ C8_Resolved(extracted_content[1], answer.image.pic, answer.image.pic.link)
        /\ path = "direct_link" =>
              /\ Len(extracted_content) = 1
              /\ C8_Resolved(extracted_content[1], answer.image.pic, request.url)
        /\ path = "direct_mislinked" =>
              /\ Len(extracted_content) = 1
              /\ C8_Resolved(extracted_content[1], answer.image.pic,
                             ImgurDirectDomain \o RSplit(request.url, Slash)[2])

\* a direct .gifv link was resolved to the mp4 the API named
C8_Witness ==
    /\ ClientAsked /\ path = "direct_link"
    /\ EndsWith(request.url, DotGifv)
    /\ answer.image.raises = NoExc
    /\ answer.image.pic.type = ImageGif /\ answer.image.pic.animated
    /\ Len(extracted_content) = 1
    /\ extracted_content[1].url = answer.image.pic.mp4
    /\ extracted_content[1].extension = DotMp4

(***************************************************************************)
(* C9: for every Gfycat url that ends with webm, gif or gifv,              *)
(* extract_content() takes the direct-link path and emits exactly one      *)
(* content item with the url unchanged and the url's own trailing          *)
(* extension, makes no network request and records no failure.             *)
(***************************************************************************)
C9_GfycatDirectLink ==
    (variant = "Gfycat" /\ Extracted
       /\ \E suffix \in {Webm, Gif, Gifv} : EndsWith(Lower(request.url), suffix))
        => /\ path = "direct_link"
           /\ Len(extracted_content) = 1
           /\ extracted_content[1].kind = "content"
           /\ extracted_content[1].url = request.url
           /\ EndsWith(request.url, extracted_content[1].extension)
           /\ http_requests = <<>>
           /\ failed_extract_messages = <<>>
           /\ failed_extracts_to_save = <<>>

(***************************************************************************)
(* C10: on the Gfycat API path, when get_json returns no value the         *)
(* extraction stops there: the failure get_json recorded is the only       *)
(* record of the call, no second failure message and no content item.      *)
(***************************************************************************)
C10_StopsAfterFailedFetch ==
    (variant = "Gfycat" /\ Extracted /\ path = "single"
       /\ http_requests # <<>> /\ BadResponse(JsonWord))
        => /\ Len(extracted_content) + Len(failed_extract_messages)
                 + Len(failed_extracts_to_save) = 1
           /\ ContentItems = <<>>

(***************************************************************************)
(* C11: on the Imgur gallery path, when the album attempt raises any       *)
(* exception, extract_content() returns with failed_extract_messages and   *)
(* failed_extracts_to_save unchanged; the same exception on the plain      *)
(* album path reaches the outer handler and appends a failure record.      *)
(***************************************************************************)
\* extract_album raised: no client to ask, the client call failed, or an
\* image of the album has a link without '.'
AlbumAttemptRaised ==
    /\ variant = "Imgur" /\ Extracted /\ path \in {"album", "gallery"}
    /\ \/ ~has_client
       \/ answer.album.raises # NoExc
       \/ \E k \in 1..Len(answer.album.pics) : ~HasDot(answer.album.pics[k].link)

C11_GallerySwallowsAlbumReports ==
    [][(pc = "ready" /\ AlbumAttemptRaised')
        => /\ path' = "gallery" =>
                 /\ failed_extract_messages' = failed_extract_messages
                 /\ failed_extracts_to_save' = failed_extracts_to_save
           /\ path' = "album" =>
                 Len(failed_extract_messages') = Len(failed_extract_messages) + 1]_vars

(***************************************************************************)
(* C12: when name_downloads_by is not 'Post Title', every item emitted on  *)
(* a single-image path of any extractor (Direct, RedditUploads, Gfycat,    *)
(* Vidble single and direct, Imgur direct, mislinked and single) is named  *)
(* by the id of the resource taken from the url, and every item of the     *)
(* Imgur album path by the album id.                                       *)
(***************************************************************************)
\* the last segment of the url, and the same without its extension
UrlTail(u) == RSplit(u, Slash)[Len(RSplit(u, Slash))]
UrlId(u) == RSplit(UrlTail(u), Dot)[1]

\* the name the claim gives the items of this call
C12_IdName ==
    CASE variant = "Imgur" /\ path \in {"album", "gallery"} -> UrlTail(request.url) \o <<" ">>
      [] variant = "Imgur" /\ path = "single" -> UrlTail(request.url)
      [] variant = "Gfycat" /\ path = "single" -> UrlTail(request.url)
      [] variant = "RedditUploads" -> UrlTail(request.url)
      [] OTHER -> UrlId(request.url)

C12_InScope ==
    /\ Extracted
    /\ request.name_downloads_by # PostTitlePolicy
    /\ ~(variant = "Vidble" /\ path \in {"album", "fallback"})

C12_NamedById ==
    C12_InScope =>
        \A k \in 1..Len(extracted_content) :
            extracted_content[k].kind = "content"
                => extracted_content[k].file_name = C12_IdName

(***************************************************************************)
(* C13: on the Imgur plain-album path, when processing fails at the k-th   *)
(* image the k-1 items already appended stay: afterwards                   *)
(* extracted_content holds exactly those k-1 items, ordinals 1..k-1 in     *)
(* album order, and the outer handler has added its failure record.        *)
(***************************************************************************)
\* the album was fetched and image k is the first whose link has no '.'
AlbumFailsAt(k) ==
    /\ ClientAsked /\ path = "album"
    /\ answer.album.raises = NoExc
    /\ k \in 1..Len(answer.album.pics)
    /\ ~HasDot(answer.album.pics[k].link)
    /\ \A j \in 1..(k - 1) : HasDot(answer.album.pics[j].link)

C13_PartialAlbumKept ==
    \A k \in 1..Len(answer.album.pics) :
        AlbumFailsAt(k) =>
            /\ Len(extracted_content) = k - 1
            /\ \A j \in 1..(k - 1) :
                  /\ extracted_content[j].kind = "content"
                  /\ extracted_content[j].count = Some(j)
                  /\ extracted_content[j].url \in
                        {answer.album.pics[j].link, answer.album.pics[j].mp4}
                  /\ extracted_content[j].url # <<>>
            /\ failed_extract_messages = <<Message("Failed to locate the content")>>
            /\ failed_extracts_to_save = <<>>

\* the last image of a full album failed after two different ones succeeded
C13_Witness ==
    /\ AlbumFailsAt(MaxImages)
    /\ answer.album.pics[1] # answer.album.pics[2]
    /\ Len(extracted_content) = MaxImages - 1
    /\ failed_extract_messages # <<>>

(***************************************************************************)
(* C14: in every state reached by constructing an extractor of any         *)
(* variant and calling extract_content() once, there are at most as many   *)
(* retryable failures as failure messages and at most one; only the Imgur  *)
(* extractor appends retryable failures, each together with one failure    *)
(* message.                                                                *)
(***************************************************************************)
\* the messages that the three retryable recorders write
RetryableMessages ==
    SelectSeq(failed_extract_messages,
              LAMBDA x : x.text \in {"Imgur rate limit exceeded", "not enough imgur credits",
                                     "Imgur is currently over capacity"})

C14_RetryableBounded ==
    (op \in {"none", "__init__", "extract_content"}) =>
        /\ Len(failed_extracts_to_save) <= Len(failed_extract_messages)
        /\ Len(failed_extracts_to_save) <= 1
        /\ failed_extracts_to_save # <<>> => variant = "Imgur"
        /\ Len(RetryableMessages) = Len(failed_extracts_to_save)

\* a 403 with the credits used up left one retryable failure and its message
C14_Witness ==
    /\ ClientAsked
    /\ ClientRaised = ImgurClientError("403")
    /\ answer.credits = Some(0)
    /\ Len(failed_extracts_to_save) = 1
    /\ failed_extract_messages = <<Message("not enough imgur credits")>>

====
